---- MODULE Spec2Model ----
(***************************************************************************)
(* Model of service/socket_server.c: the control-socket listener of the    *)
(* audio player daemon.  Two parts:                                        *)
(*   - the command parser / registry / dispatcher (process_command and the *)
(*     handle_* functions), as operators over C strings, exercised by      *)
(*     DispatchSpec;                                                       *)
(*   - the listener lifecycle (socket_server_init / _start / _cleanup) and *)
(*     the worker loop (socket_server_thread), as a state machine, Spec.   *)
(* C strings are sequences of one-character strings.                       *)
(***************************************************************************)
EXTENDS Integers, Sequences, FiniteSets, TLC

----------------------------------------------------------------------------
(* String literals of the source. *)

S_play ==
    << "p", "l", "a", "y" >>

S_stop ==
    << "s", "t", "o", "p" >>

S_stop_all ==
    << "s", "t", "o", "p", "-", "a", "l", "l" >>

S_list ==
    << "l", "i", "s", "t" >>

S_status ==
    << "s", "t", "a", "t", "u", "s" >>

S_reload ==
    << "r", "e", "l", "o", "a", "d" >>

R_MissingTrackId ==
    << "E", "R", "R", "O", "R", ":", " ", "M", "i", "s", "s", "i", "n", "g", " ", "t", "r", "a", "c", "k", " ", "I", "D" >>

R_PlayingTrack ==
    << "O", "K", ":", " ", "P", "l", "a", "y", "i", "n", "g", " ", "t", "r", "a", "c", "k", " " >>

R_FailedPlay ==
    << "E", "R", "R", "O", "R", ":", " ", "F", "a", "i", "l", "e", "d", " ", "t", "o", " ", "p", "l", "a", "y", " ", "t", "r", "a", "c", "k", " " >>

R_StoppedTrack ==
    << "O", "K", ":", " ", "S", "t", "o", "p", "p", "e", "d", " ", "t", "r", "a", "c", "k", " " >>

R_FailedStop ==
    << "E", "R", "R", "O", "R", ":", " ", "F", "a", "i", "l", "e", "d", " ", "t", "o", " ", "s", "t", "o", "p", " ", "t", "r", "a", "c", "k", " " >>

R_StoppedAll ==
    << "O", "K", ":", " ", "S", "t", "o", "p", "p", "e", "d", " ", "a", "l", "l", " ", "t", "r", "a", "c", "k", "s" >>

R_FailedStopAll ==
    << "E", "R", "R", "O", "R", ":", " ", "F", "a", "i", "l", "e", "d", " ", "t", "o", " ", "s", "t", "o", "p", " ", "a", "l", "l", " ", "t", "r", "a", "c", "k", "s" >>

R_List ==
    << "O", "K", ":", " ", "T", "r", "a", "c", "k", " ", "l", "i", "s", "t", "i", "n", "g", " ", "n", "o", "t", " ", "y", "e", "t", " ", "i", "m", "p", "l", "e", "m", "e", "n", "t", "e", "d" >>

R_Status ==
    << "O", "K", ":", " ", "S", "t", "a", "t", "u", "s", " ", "n", "o", "t", " ", "y", "e", "t", " ", "i", "m", "p", "l", "e", "m", "e", "n", "t", "e", "d" >>

R_Reload ==
    << "O", "K", ":", " ", "R", "e", "l", "o", "a", "d", " ", "s", "i", "g", "n", "a", "l", " ", "s", "e", "n", "t" >>

R_Empty ==
    << "E", "R", "R", "O", "R", ":", " ", "E", "m", "p", "t", "y", " ", "c", "o", "m", "m", "a", "n", "d" >>

R_UnknownPre ==
    << "E", "R", "R", "O", "R", ":", " ", "U", "n", "k", "n", "o", "w", "n", " ", "c", "o", "m", "m", "a", "n", "d", " ", "'" >>

R_UnknownPost ==
    << "'" >>

W_PLAY ==
    << "P", "L", "A", "Y" >>

W_Play ==
    << "P", "l", "a", "y" >>

W_stopdash ==
    << "s", "t", "o", "p", "-" >>

W_stopall ==
    << "s", "t", "o", "p", "a", "l", "l" >>

W_pla ==
    << "p", "l", "a" >>

W_plays ==
    << "p", "l", "a", "y", "s" >>

W_x ==
    << "x" >>

W_track42 ==
    << "t", "r", "a", "c", "k", "4", "2" >>

W_a_b ==
    << "a", " ", "b" >>

W_a ==
    << "a" >>

----------------------------------------------------------------------------
(* Bounds of the model. *)

\* longest run of spaces placed between keyword and argument of a request
MaxPad ==
    2

\* number of client connections made during one run
MaxConns ==
    2

\* number of socket_server_init calls during one run
MaxInits ==
    2

\* number of accept() failures in a row
MaxAcceptFails ==
    1

----------------------------------------------------------------------------
(* Program constants. *)

\* sizeof(cmd_buf) in process_command
CmdBufSize ==
    256

\* sizeof(buffer) in socket_server_thread
BufferSize ==
    1024

\* sizeof(response) in socket_server_thread
ResponseSize ==
    1024

\* backlog passed to listen()
Backlog ==
    5

----------------------------------------------------------------------------
(* State. *)

VARIABLES
    \* --- Listener Context (socket_server_ctx_t) and its owner ---
    ctx,          \* "null" or "live": the context the owning thread holds
    running,      \* ctx->running
    server_fd,    \* ctx->server_fd: -1 or a descriptor number
    thread,       \* ctx->thread: "none" (zero), "valid" or "garbage"
    ctl,          \* position of the owning thread inside Start / Stop
    sock,         \* local sock of socket_server_cleanup
    \* --- operating system ---
    file,         \* socket file at socket_path: "none", "stale" or "bound"
    fdtab,        \* open descriptors of the process: fd -> what it refers to
    backlog,      \* connections queued on the listening socket
    \* --- worker (socket_server_thread) ---
    wpc,          \* position of the worker
    client_fd,    \* local client_fd
    bytes_read,   \* local bytes_read
    buffer,       \* local buffer[1024], the cells written so far
    response,     \* local response[1024], as a C string
    \* --- clients and the wake-up connection (id 0) ---
    peer,         \* client end of each connection
    cdata,        \* bytes the client has written on the connection
    creply,       \* bytes the server has written on the connection
    srv,          \* server end of each connection
    \* --- external subsystem ---
    mgr_calls,    \* calls made into the track manager in the current loop
                  \* iteration: <<conn, function, argument, answer>>
    \* --- history ---
    hist,         \* steps of the worker's current loop iteration: <<step, conn>>
    ops,          \* results of the lifecycle calls and counters
    \* --- dispatcher on its own (DispatchSpec) ---
    d_pc,         \* "ready" before the call on the first request, "done" after
                  \* it, "ready2" and "done2" on the second ("off" under Spec)
    d_cmd_str,    \* the request line
    d_mgr,        \* the answer of the subsystem
    d_res,        \* what process_command returned
    d_response,   \* the response buffer
    d_prev        \* the response buffer as the call found it

ctxVars ==
    << ctx, running, server_fd, thread, ctl, sock >>

osVars ==
    << file, fdtab, backlog >>

workerVars ==
    << wpc, client_fd, bytes_read, buffer, response >>

connVars ==
    << peer, cdata, creply, srv >>

dispatchVars ==
    << d_pc, d_cmd_str, d_mgr, d_res, d_response, d_prev >>

vars ==
    << ctx, running, server_fd, thread, ctl, sock, file, fdtab, backlog,
       wpc, client_fd, bytes_read, buffer, response, peer, cdata, creply, srv,
       mgr_calls, hist, ops, d_pc, d_cmd_str, d_mgr, d_res, d_response, d_prev >>

----------------------------------------------------------------------------
(* C library functions used by the dispatcher. *)

Min(a, b) ==
    IF a < b THEN a ELSE b

Take(s, n) ==
    SubSeq(s, 1, Min(n, Len(s)))

Drop(s, n) ==
    SubSeq(s, n + 1, Len(s))

\* a char* : either NULL or a pointer to a C string
NULLP ==
    [isnull |-> TRUE, str |-> << >>]

Ptr(s) ==
    [isnull |-> FALSE, str |-> s]

\* snprintf(dst, size, ...): the formatted text s cut to size - 1 characters
snprintf(size, s) ==
    Take(s, size - 1)

\* strncpy(dst, src, n - 1); dst[n - 1] = '\0'
strncpy(src, n) ==
    Take(src, n - 1)

\* length of the longest prefix of s made of characters of set d
strspn(s, d) ==
    CHOOSE n \in 0..Len(s) :
        /\ \A i \in 1..n : s[i] \in d
        /\ n = Len(s) \/ s[n + 1] \notin d

\* length of the longest prefix of s made of characters outside set d
strcspn(s, d) ==
    CHOOSE n \in 0..Len(s) :
        /\ \A i \in 1..n : s[i] \notin d
        /\ n = Len(s) \/ s[n + 1] \in d

\* a variant of strtok that does not skip the delimiters before the token
strtok_noskip(s, delim) ==
    LET b == strcspn(s, delim)
    IN  IF s = << >>
        THEN [tok |-> NULLP, save |-> << >>]
        ELSE [tok |-> Ptr(Take(s, b)),
              save |-> IF b = Len(s) THEN << >> ELSE Drop(s, b + 1)]

\* strtok on the text s that starts at the saved position: skip leading
\* delimiters, return the token up to the next delimiter (which is replaced
\* by '\0') and the new saved position, just after that delimiter.
strtok(s, delim) ==
    LET t == Drop(s, strspn(s, delim))
        b == strcspn(t, delim)
    IN  IF t = << >>
        THEN [tok |-> NULLP, save |-> << >>]
        ELSE [tok |-> Ptr(Take(t, b)),
              save |-> IF b = Len(t) THEN << >> ELSE Drop(t, b + 1)]

\* a variant of strcmp that compares only the first strlen(a) characters
strcmp_prefix(a, b) ==
    Take(b, Len(a)) = a

\* strcmp(a, b) == 0
strcmp_eq(a, b) ==
    a = b

----------------------------------------------------------------------------
(* The external subsystem (track manager).  The stub's answer mgr is the    *)
(* boolean the call returns; calls are recorded as <<function, argument>>.  *)

track_manager_play(mgr, track_id) ==
    [ret |-> mgr, call |-> << <<"track_manager_play", track_id>> >>]

track_manager_stop(mgr, track_id) ==
    [ret |-> mgr, call |-> << <<"track_manager_stop", track_id>> >>]

track_manager_stop_all(mgr) ==
    [ret |-> mgr, call |-> << <<"track_manager_stop_all", << >> >> >>]

----------------------------------------------------------------------------
(* Command handlers.  Each returns the int result, the response text, the   *)
(* subsystem calls made and its own name.                                   *)

\* a variant of the handlers without the argument test
MissingArg_skipped(track_id) ==
    FALSE

\* !track_id || !track_id[0]
MissingArg(track_id) ==
    track_id.isnull \/ track_id.str = << >>

handle_play(mgr, track_id, resp_size) ==
    IF MissingArg(track_id)
    THEN [rc |-> -1, response |-> snprintf(resp_size, R_MissingTrackId),
          calls |-> << >>, handler |-> "handle_play"]
    ELSE LET r == track_manager_play(mgr, track_id.str)
         IN  IF r.ret
             THEN [rc |-> 0,
                   response |-> snprintf(resp_size, R_PlayingTrack \o track_id.str),
                   calls |-> r.call, handler |-> "handle_play"]
             ELSE [rc |-> -1,
                   response |-> snprintf(resp_size, R_FailedPlay \o track_id.str),
                   calls |-> r.call, handler |-> "handle_play"]

handle_stop(mgr, track_id, resp_size) ==
    IF MissingArg(track_id)
    THEN [rc |-> -1, response |-> snprintf(resp_size, R_MissingTrackId),
          calls |-> << >>, handler |-> "handle_stop"]
    ELSE LET r == track_manager_stop(mgr, track_id.str)
         IN  IF r.ret
             THEN [rc |-> 0,
                   response |-> snprintf(resp_size, R_StoppedTrack \o track_id.str),
                   calls |-> r.call, handler |-> "handle_stop"]
             ELSE [rc |-> -1,
                   response |-> snprintf(resp_size, R_FailedStop \o track_id.str),
                   calls |-> r.call, handler |-> "handle_stop"]

\* a variant of handle_stop_all that remembers: it refuses when the previous
\* command already stopped all tracks
handle_stop_all_once(mgr, arg, resp_size) ==
    IF d_response = R_StoppedAll
    THEN [rc |-> -1, response |-> snprintf(resp_size, R_FailedStopAll),
          calls |-> << >>, handler |-> "handle_stop_all"]
    ELSE LET r == track_manager_stop_all(mgr)
         IN  IF r.ret
             THEN [rc |-> 0, response |-> snprintf(resp_size, R_StoppedAll),
                   calls |-> r.call, handler |-> "handle_stop_all"]
             ELSE [rc |-> -1, response |-> snprintf(resp_size, R_FailedStopAll),
                   calls |-> r.call, handler |-> "handle_stop_all"]

handle_stop_all(mgr, arg, resp_size) ==
    LET r == track_manager_stop_all(mgr)
    IN  IF r.ret
        THEN [rc |-> 0, response |-> snprintf(resp_size, R_StoppedAll),
              calls |-> r.call, handler |-> "handle_stop_all"]
        ELSE [rc |-> -1, response |-> snprintf(resp_size, R_FailedStopAll),
              calls |-> r.call, handler |-> "handle_stop_all"]

\* a variant of handle_list that returns without writing the response
handle_list_silent(mgr, arg, resp_size) ==
    [rc |-> 0, response |-> d_response,
     calls |-> << >>, handler |-> "handle_list"]

handle_list(mgr, arg, resp_size) ==
    [rc |-> 0, response |-> snprintf(resp_size, R_List),
     calls |-> << >>, handler |-> "handle_list"]

handle_status(mgr, arg, resp_size) ==
    [rc |-> 0, response |-> snprintf(resp_size, R_Status),
     calls |-> << >>, handler |-> "handle_status"]

handle_reload(mgr, arg, resp_size) ==
    [rc |-> 0, response |-> snprintf(resp_size, R_Reload),
     calls |-> << >>, handler |-> "handle_reload"]

\* the command table, in source order (the NULL terminator is its end)
COMMANDS ==
    << [cmd |-> S_play,     handler |-> "handle_play"],
       [cmd |-> S_stop,     handler |-> "handle_stop"],
       [cmd |-> S_stop_all, handler |-> "handle_stop_all"],
       [cmd |-> S_list,     handler |-> "handle_list"],
       [cmd |-> S_status,   handler |-> "handle_status"],
       [cmd |-> S_reload,   handler |-> "handle_reload"] >>

\* handler->handler(mgr, arg, response, resp_size)
CallHandler(h, mgr, arg, resp_size) ==
    CASE h = "handle_play"     -> handle_play(mgr, arg, resp_size)
      [] h = "handle_stop"     -> handle_stop(mgr, arg, resp_size)
      [] h = "handle_stop_all" -> handle_stop_all(mgr, arg, resp_size)
      [] h = "handle_list"     -> handle_list(mgr, arg, resp_size)
      [] h = "handle_status"   -> handle_status(mgr, arg, resp_size)
      [] h = "handle_reload"   -> handle_reload(mgr, arg, resp_size)

\* the two strtok calls of process_command on the copied command buffer
ParseCommand(cmd_str) ==
    LET cmd_buf == strncpy(cmd_str, CmdBufSize)
        t1 == strtok(cmd_buf, {" "})
        t2 == strtok(t1.save, {})
    IN  [cmd |-> t1.tok, arg |-> t2.tok]

process_command(cmd_str, mgr, resp_size) ==
    LET p == ParseCommand(cmd_str)
        hits == {i \in 1..Len(COMMANDS) : strcmp_eq(COMMANDS[i].cmd, p.cmd.str)}
        first == CHOOSE i \in hits : \A j \in hits : i <= j
    IN  IF p.cmd.isnull
        THEN [rc |-> -1, response |-> snprintf(resp_size, R_Empty),
              calls |-> << >>, handler |-> "none"]
        ELSE IF hits # {}
        THEN CallHandler(COMMANDS[first].handler, mgr, p.arg, resp_size)
        ELSE [rc |-> -1,
              response |-> snprintf(resp_size, R_UnknownPre \o p.cmd.str \o R_UnknownPost),
              calls |-> << >>, handler |-> "none"]

----------------------------------------------------------------------------
(* Request lines used as inputs. *)

Spaces(n) ==
    [i \in 1..n |-> " "]

\* a request longer than the command buffer: "play " followed by 300 x "a"
LongLine ==
    S_play \o << " " >> \o [i \in 1..300 |-> "a"]

Keywords ==
    { S_play, S_stop, S_stop_all, S_list, S_status, S_reload }

OtherWords ==
    { W_PLAY, W_Play, W_stopdash, W_stopall, W_pla, W_plays, W_x }

ArgTexts ==
    { << >>, W_a, W_a_b, W_track42 }

\* inputs of the dispatcher: [leading space] word [spaces [argument]],
\* the empty line and lines made of spaces only, and one over-long line
DispatchInputs ==
    { Spaces(l) \o w \o Spaces(p) \o a :
        l \in 0..1, w \in Keywords \cup OtherWords, p \in 0..MaxPad, a \in ArgTexts }
    \cup { Spaces(n) : n \in 0..MaxPad }
    \cup { LongLine }

\* requests the clients of the listener send
ClientRequests ==
    { S_play \o << " " >> \o W_track42,
      W_x }

----------------------------------------------------------------------------
(* Connections, descriptors and initial values. *)

Conns ==
    0..MaxConns

Clients ==
    1..MaxConns

\* the id of the wake-up connection socket_server_cleanup makes
WakeConn ==
    0

\* uninitialised stack memory
Garbage ==
    << "?" >>

NoResult ==
    [rc |-> 0, response |-> << >>, calls |-> << >>, handler |-> "none"]

NoReply ==
    [got |-> FALSE, text |-> << >>]

\* socket() / accept(): the lowest descriptor number not in use
NewFd(tab) ==
    CHOOSE n \in 3..(3 + Cardinality(DOMAIN tab)) :
        /\ n \notin DOMAIN tab
        /\ \A m \in 3..(n - 1) : m \in DOMAIN tab

OpenFd(tab, fd, what) ==
    [n \in DOMAIN tab \cup {fd} |-> IF n = fd THEN what ELSE tab[n]]

CloseFd(tab, fd) ==
    [n \in DOMAIN tab \ {fd} |-> tab[n]]

NoFds ==
    [n \in {} |-> [kind |-> "none", conn |-> -1]]

\* history of the lifecycle calls: the number of socket_server_init calls,
\* the outcome of the last one, the outcome of the last socket_server_start,
\* the last call that returned, the workers spawned for the context, whether
\* its running flag went from true to false, whether Stop cleared it, the
\* accept failures in a row and whether the last was logged, the statements
\* of the socket_server_cleanup call in progress, the connections the
\* worker accepted since that call cleared the flag
OpsInit ==
    [ninits |-> 0, init |-> "none", env |-> FALSE, stale |-> FALSE,
     start |-> "none", last |-> "none",
     workers |-> 0, cleared |-> FALSE, stopCleared |-> FALSE,
     acceptFails |-> 0, logged |-> FALSE, stop |-> << >>,
     late |-> 0]

DispatchIdle ==
    /\ d_pc = "off"
    /\ d_cmd_str = << >>
    /\ d_mgr = FALSE
    /\ d_res = NoResult
    /\ d_response = Garbage
    /\ d_prev = Garbage

Init ==
    /\ ctx = "null"
    /\ running = FALSE
    /\ server_fd = -1
    /\ thread = "none"
    /\ ctl = "idle"
    /\ sock = -1
    /\ file \in {"none", "stale"}
    /\ fdtab = NoFds
    /\ backlog = << >>
    /\ wpc = "none"
    /\ client_fd = -1
    /\ bytes_read = 0
    /\ buffer = << >>
    /\ response = Garbage
    /\ peer = [c \in Conns |-> "none"]
    /\ cdata = [c \in Conns |-> << >>]
    /\ creply = [c \in Conns |-> NoReply]
    /\ srv = [c \in Conns |-> "none"]
    /\ mgr_calls = << >>
    /\ hist = << >>
    /\ ops = OpsInit
    /\ DispatchIdle

----------------------------------------------------------------------------
(* Lifecycle Manager: socket_server_init. *)

\* a variant of unlink that leaves the file in place
unlink_noop(f) ==
    f

\* unlink(ctx->socket_path): whatever was at the path is gone
unlink(f) ==
    "none"

\* bind() creates the socket file; it fails (EADDRINUSE) when a file is
\* already at the path, or when the environment refuses it (envOk = FALSE)
bind_ok(f, envOk) ==
    envOk /\ f = "none"

\* a variant of the error paths that leaves the descriptor open
init_close_leak(tab, fd) ==
    tab

\* close(ctx->server_fd); on the error paths of socket_server_init
init_close(tab, fd) ==
    CloseFd(tab, fd)

\* One call of socket_server_init.  allocOk, sockOk, bindOk, listenOk say
\* whether calloc, socket, bind and listen succeed in the environment.
\* ops.init records the step that failed, ops.env whether the environment
\* let every step succeed, ops.stale whether a file was at the path.
socket_server_init ==
    /\ ctl = "idle"
    /\ ctx = "null"
    /\ ops.ninits < MaxInits
    /\ \E allocOk, sockOk, bindOk, listenOk \in BOOLEAN :
        LET f1     == IF allocOk THEN unlink(file) ELSE file
            opened == allocOk /\ sockOk
            fd     == IF opened THEN NewFd(fdtab) ELSE -1
            tab1   == IF opened
                      THEN OpenFd(fdtab, fd, [kind |-> "listener", conn |-> -1])
                      ELSE fdtab
            bound  == opened /\ bind_ok(f1, bindOk)
            ok     == bound /\ listenOk
            step   == IF ~allocOk THEN "calloc"
                      ELSE IF ~sockOk THEN "socket"
                      ELSE IF ~bound THEN "bind"
                      ELSE IF ~listenOk THEN "listen"
                      ELSE "ok"
        IN  /\ ctx' = IF ok THEN "live" ELSE "null"
            /\ running' = FALSE
            /\ server_fd' = IF ok THEN fd ELSE -1
            /\ thread' = "none"
            /\ file' = IF bound THEN (IF ok THEN "bound" ELSE "stale") ELSE f1
            /\ fdtab' = IF opened /\ ~ok THEN init_close(tab1, fd) ELSE tab1
            /\ ops' = [ops EXCEPT !.ninits = @ + 1,
                                  !.init = step,
                                  !.env = allocOk /\ sockOk /\ bindOk /\ listenOk,
                                  !.stale = (file # "none"),
                                  !.start = "none",
                                  !.last = "init",
                                  !.workers = 0,
                                  !.cleared = FALSE,
                                  !.stopCleared = FALSE]
    /\ UNCHANGED << ctl, sock, backlog, workerVars, connVars, mgr_calls, hist,
                    dispatchVars >>

----------------------------------------------------------------------------
(* Lifecycle Manager: socket_server_start. *)

\* if (!ctx) return false;
StartNull ==
    /\ ctl = "idle"
    /\ ctx = "null"
    /\ ops.last = "init"
    /\ ops' = [ops EXCEPT !.start = "fail", !.last = "start"]
    /\ UNCHANGED << ctxVars, osVars, workerVars, connVars, mgr_calls, hist,
                    dispatchVars >>

\* ctx->running = true;
StartSet ==
    /\ ctl = "idle"
    /\ ctx = "live"
    /\ thread # "valid"
    /\ running' = TRUE
    /\ ctl' = "start_create"
    /\ ops' = [ops EXCEPT !.start = "none"]
    /\ UNCHANGED << ctx, server_fd, thread, sock, osVars, workerVars, connVars,
                    mgr_calls, hist, dispatchVars >>

\* a variant of the failure branch that leaves the flag set
spawn_failed_keep(r) ==
    r

\* ctx->running = false; after pthread_create failed
spawn_failed(r) ==
    FALSE

\* pthread_create(...) and the return of socket_server_start
StartCreate ==
    /\ ctl = "start_create"
    /\ \E ok \in BOOLEAN :
        IF ok
        THEN /\ thread' = "valid"
             /\ wpc' = "loop"
             /\ client_fd' = -1
             /\ bytes_read' = 0
             /\ buffer' = << >>
             /\ response' = Garbage
             /\ hist' = << >>
             /\ ops' = [ops EXCEPT !.start = "ok", !.last = "start",
                                   !.workers = @ + 1]
             /\ UNCHANGED running
        ELSE /\ running' = spawn_failed(running)
             /\ thread' \in {thread, "garbage"}
             /\ ops' = [ops EXCEPT !.start = "fail", !.last = "start",
                                   !.cleared = @ \/ (running /\ ~running')]
             /\ UNCHANGED << workerVars, hist >>
    /\ ctl' = "idle"
    /\ UNCHANGED << ctx, server_fd, sock, osVars, connVars, mgr_calls,
                    dispatchVars >>

----------------------------------------------------------------------------
(* Lifecycle Manager: socket_server_cleanup, statement by statement. *)

\* ctx->running = false;
StopClear ==
    /\ ctl = "idle"
    /\ ctx = "live"
    /\ running' = FALSE
    /\ ctl' = "stop_wake"
    /\ ops' = [ops EXCEPT !.cleared = @ \/ running, !.stopCleared = TRUE,
                          !.stop = Append(@, "clear")]
    /\ UNCHANGED << ctx, server_fd, thread, sock, osVars, workerVars, connVars,
                    mgr_calls, hist, dispatchVars >>

\* a listening socket is bound to the path
Listening ==
    /\ file = "bound"
    /\ server_fd \in DOMAIN fdtab

\* int sock = socket(AF_UNIX, SOCK_STREAM, 0);
\* if (sock >= 0) { ... connect(sock, socket_path) ...
\* socket() may fail, and then no wake-up is made.  connect() is queued on
\* the listener when there is one (waiting while the queue is full) and
\* refused otherwise; its result is ignored.
StopWake ==
    /\ ctl = "stop_wake"
    /\ \E sockOk \in BOOLEAN :
        IF sockOk
        THEN /\ Listening => Len(backlog) < Backlog
             /\ sock' = NewFd(fdtab)
             /\ fdtab' = OpenFd(fdtab, NewFd(fdtab), [kind |-> "wake", conn |-> WakeConn])
             /\ IF Listening
                THEN /\ backlog' = Append(backlog, WakeConn)
                     /\ peer' = [peer EXCEPT ![WakeConn] = "connected"]
                     /\ srv' = [srv EXCEPT ![WakeConn] = "queued"]
                ELSE UNCHANGED << backlog, peer, srv >>
             /\ ctl' = "stop_closesock"
             /\ ops' = [ops EXCEPT !.stop = Append(@, "wake")]
        ELSE /\ sock' = -1
             /\ ctl' = "stop_join"
             /\ UNCHANGED << fdtab, backlog, peer, srv, ops >>
    /\ UNCHANGED << ctx, running, server_fd, thread, file, workerVars, cdata,
                    creply, mgr_calls, hist, dispatchVars >>

\* close(sock);
StopCloseSock ==
    /\ ctl = "stop_closesock"
    /\ fdtab' = CloseFd(fdtab, sock)
    /\ sock' = -1
    /\ peer' = [peer EXCEPT ![WakeConn] = IF @ = "connected" THEN "closed" ELSE @]
    /\ ctl' = "stop_join"
    /\ UNCHANGED << ctx, running, server_fd, thread, file, backlog, workerVars,
                    cdata, creply, srv, mgr_calls, hist, ops, dispatchVars >>

\* if (ctx->thread) pthread_join(ctx->thread, NULL);
\* joining a worker waits for its exit; a zero handle is skipped; a handle
\* left undefined by a failed pthread_create is not a thread, the call
\* returns at once when it returns at all.  The locals of a joined worker
\* are gone with its stack.
StopJoin ==
    /\ ctl = "stop_join"
    /\ \/ /\ thread \in {"none", "garbage"}
          /\ UNCHANGED << workerVars, mgr_calls, hist >>
       \/ /\ thread = "valid"
          /\ wpc = "exited"
          /\ wpc' = "none"
          /\ client_fd' = -1
          /\ bytes_read' = 0
          /\ buffer' = << >>
          /\ response' = Garbage
          /\ mgr_calls' = << >>
          /\ hist' = << >>
    /\ ctl' = "stop_close"
    /\ ops' = [ops EXCEPT !.stop = Append(@, "join"), !.late = 0]
    /\ UNCHANGED << ctx, running, server_fd, thread, sock, osVars, connVars,
                    dispatchVars >>

\* if (ctx->server_fd >= 0) { close(ctx->server_fd); ctx->server_fd = -1; }
\* closing the listener drops the connections still queued on it
StopCloseFd ==
    /\ ctl = "stop_close"
    /\ IF server_fd >= 0
       THEN /\ fdtab' = CloseFd(fdtab, server_fd)
            /\ server_fd' = -1
            /\ backlog' = << >>
            /\ srv' = [c \in Conns |->
                         IF srv[c] # "queued" THEN srv[c]
                         ELSE IF peer[c] = "closed" THEN "none" ELSE "dropped"]
            /\ cdata' = [c \in Conns |-> IF srv'[c] = "none" THEN << >> ELSE cdata[c]]
            /\ file' = IF file = "bound" THEN "stale" ELSE file
       ELSE UNCHANGED << fdtab, server_fd, backlog, srv, cdata, file >>
    /\ ctl' = "stop_unlink"
    /\ ops' = [ops EXCEPT !.stop = Append(@, "close")]
    /\ UNCHANGED << ctx, running, thread, sock, workerVars, peer, creply,
                    mgr_calls, hist, dispatchVars >>

\* unlink(ctx->socket_path);
StopUnlink ==
    /\ ctl = "stop_unlink"
    /\ file' = unlink(file)
    /\ ctl' = "stop_free"
    /\ ops' = [ops EXCEPT !.stop = Append(@, "unlink")]
    /\ UNCHANGED << ctx, running, server_fd, thread, sock, fdtab, backlog,
                    workerVars, connVars, mgr_calls, hist, dispatchVars >>

\* free(ctx); and the return of socket_server_cleanup
StopFree ==
    /\ ctl = "stop_free"
    /\ ctx' = "null"
    /\ running' = FALSE
    /\ thread' = "none"
    /\ ctl' = "idle"
    /\ ops' = [ops EXCEPT !.last = "stop", !.stop = << >>]
    /\ peer' = [peer EXCEPT ![WakeConn] = "none"]
    /\ srv' = [srv EXCEPT ![WakeConn] = "none"]
    /\ UNCHANGED << server_fd, sock, osVars, workerVars, cdata, creply,
                    mgr_calls, hist, dispatchVars >>

----------------------------------------------------------------------------
(* Connection Server Loop: socket_server_thread, statement by statement. *)

\* the '\0' character
NUL ==
    "NUL"

\* the C string held in an array: the cells before the first '\0'; an array
\* without terminator runs on into whatever memory follows it
CStr(cells) ==
    IF \E i \in 1..Len(cells) : cells[i] = NUL
    THEN Take(cells, strcspn(cells, {NUL}))
    ELSE cells \o Garbage

\* read(fd, buffer, n) of the bytes data: the first cells are overwritten
read_into(cells, data, n) ==
    Take(data, n) \o Drop(cells, Min(n, Len(data)))

\* a variant of the worker that leaves the request unterminated
terminate_missing(cells, n) ==
    cells

\* buffer[bytes_read] = '\0';
terminate(cells, n) ==
    Take(cells, n) \o << NUL >> \o Drop(cells, n + 1)

\* the buffers of a connection are released once both ends are closed
Discard(f, c, empty) ==
    [f EXCEPT ![c] = empty]

\* the connection a descriptor of the worker refers to
ConnOf(fd) ==
    fdtab[fd].conn

\* a variant of the loop that does not test the flag: while (1)
WorkerLoop_forever ==
    /\ wpc = "loop"
    /\ wpc' = "accept"
    /\ hist' = << >>
    /\ mgr_calls' = << >>
    /\ UNCHANGED << ctxVars, osVars, client_fd, bytes_read, buffer, response,
                    connVars, ops, dispatchVars >>

\* while (ctx->running)
WorkerLoop ==
    /\ wpc = "loop"
    /\ wpc' = IF running THEN "accept" ELSE "exited"
    /\ ops' = IF running THEN ops ELSE [ops EXCEPT !.acceptFails = 0, !.logged = FALSE]
    /\ hist' = << >>
    /\ mgr_calls' = << >>
    /\ UNCHANGED << ctxVars, osVars, client_fd, bytes_read, buffer, response,
                    connVars, dispatchVars >>

\* accept() returns a queued connection
WorkerAccept ==
    /\ wpc = "accept"
    /\ server_fd \in DOMAIN fdtab
    /\ backlog # << >>
    /\ LET c  == Head(backlog)
           fd == NewFd(fdtab)
       IN  /\ client_fd' = fd
           /\ fdtab' = OpenFd(fdtab, fd, [kind |-> "client", conn |-> c])
           /\ backlog' = Tail(backlog)
           /\ srv' = [srv EXCEPT ![c] = "accepted"]
           /\ hist' = Append(hist, << "accept", c >>)
    /\ ops' = [ops EXCEPT !.acceptFails = 0, !.logged = FALSE,
                          !.late = IF ops.stop # << >> THEN @ + 1 ELSE @]
    /\ wpc' = "read"
    /\ UNCHANGED << ctxVars, file, bytes_read, buffer, response, peer, cdata,
                    creply, mgr_calls, dispatchVars >>

\* a variant of the failure branch that leaves the loop: break instead of
\* continue
WorkerAcceptFail_break ==
    /\ wpc = "accept"
    /\ ops.acceptFails < MaxAcceptFails
    /\ client_fd' = -1
    /\ ops' = [ops EXCEPT !.acceptFails = 0, !.logged = FALSE]
    /\ wpc' = "exited"
    /\ UNCHANGED << ctxVars, osVars, bytes_read, buffer, response, connVars,
                    mgr_calls, hist, dispatchVars >>

\* a variant of the failure branch that assigns the flag instead of testing
\* it: if (ctx->running = true)
WorkerAcceptFail_assign ==
    /\ wpc = "accept"
    /\ ops.acceptFails < MaxAcceptFails
    /\ client_fd' = -1
    /\ running' = TRUE
    /\ ops' = [ops EXCEPT !.acceptFails = @ + 1, !.logged = TRUE]
    /\ wpc' = "loop"
    /\ UNCHANGED << ctx, server_fd, thread, ctl, sock, osVars, bytes_read, buffer,
                    response, connVars, mgr_calls, hist, dispatchVars >>

\* accept() fails: if (client_fd < 0) { if (ctx->running) log_error(...); continue; }
WorkerAcceptFail ==
    /\ wpc = "accept"
    /\ ops.acceptFails < MaxAcceptFails
    /\ client_fd' = -1
    /\ ops' = [ops EXCEPT !.acceptFails = @ + 1, !.logged = running]
    /\ wpc' = "loop"
    /\ UNCHANGED << ctxVars, osVars, bytes_read, buffer, response, connVars,
                    mgr_calls, hist, dispatchVars >>

\* a variant of the worker that takes an empty read for a request:
\* if (bytes_read >= 0)
WorkerRead_nonneg ==
    /\ wpc = "read"
    /\ LET c == ConnOf(client_fd)
           n == Min(Len(cdata[c]), BufferSize - 1)
       IN  /\ cdata[c] # << >> \/ peer[c] = "closed"
           /\ \E r \in (IF n > 0 THEN {n} ELSE {0, -1}) :
                /\ bytes_read' = r
                /\ buffer' = IF r >= 0
                             THEN terminate(read_into(buffer, cdata[c], r), r)
                             ELSE buffer
                /\ wpc' = IF r >= 0 THEN "process" ELSE "close"
           /\ hist' = Append(hist, << "read", c >>)
    /\ UNCHANGED << ctxVars, osVars, client_fd, response, connVars, mgr_calls,
                    ops, dispatchVars >>

\* read(client_fd, buffer, sizeof(buffer) - 1) returns once the client has
\* written its request or closed its end; bytes_read > 0 terminates the text
WorkerRead ==
    /\ wpc = "read"
    /\ LET c == ConnOf(client_fd)
           n == Min(Len(cdata[c]), BufferSize - 1)
       IN  /\ cdata[c] # << >> \/ peer[c] = "closed"
           /\ \E r \in (IF n > 0 THEN {n} ELSE {0, -1}) :
                /\ bytes_read' = r
                /\ buffer' = IF r > 0
                             THEN terminate(read_into(buffer, cdata[c], r), r)
                             ELSE buffer
                /\ wpc' = IF r > 0 THEN "process" ELSE "close"
           /\ hist' = Append(hist, << "read", c >>)
    /\ UNCHANGED << ctxVars, osVars, client_fd, response, connVars, mgr_calls,
                    ops, dispatchVars >>

\* a variant of the worker that gives up on a failed request:
\* if (process_command(...) < 0) ctx->running = false;
WorkerProcess_fatal ==
    /\ wpc = "process"
    /\ \E mgr \in BOOLEAN :
        \E r \in { process_command(CStr(buffer), mgr, ResponseSize) } :
            LET c == ConnOf(client_fd)
            IN  /\ response' = r.response
                /\ running' = IF r.rc < 0 THEN FALSE ELSE running
                /\ mgr_calls' = mgr_calls \o
                      [i \in 1..Len(r.calls) |->
                          << c, r.calls[i][1], r.calls[i][2], mgr >>]
                /\ hist' = Append(hist, << "dispatch", c >>)
    /\ wpc' = "write"
    /\ UNCHANGED << ctx, server_fd, thread, ctl, sock, osVars, client_fd,
                    bytes_read, buffer, connVars, ops, dispatchVars >>

\* process_command(buffer, ctx->track_manager, response, sizeof(response));
\* mgr is the answer of the subsystem, should the handler call it
WorkerProcess ==
    /\ wpc = "process"
    /\ \E mgr \in BOOLEAN :
        \E r \in { process_command(CStr(buffer), mgr, ResponseSize) } :
            LET c == ConnOf(client_fd)
            IN  /\ response' = r.response
                /\ mgr_calls' = mgr_calls \o
                      [i \in 1..Len(r.calls) |->
                          << c, r.calls[i][1], r.calls[i][2], mgr >>]
                /\ hist' = Append(hist, << "dispatch", c >>)
    /\ wpc' = "write"
    /\ UNCHANGED << ctxVars, osVars, client_fd, bytes_read, buffer, connVars,
                    ops, dispatchVars >>

\* a variant that goes back to the loop test after the write, without close
WorkerWrite_continue ==
    /\ wpc = "write"
    /\ LET c == ConnOf(client_fd)
       IN  /\ creply' = IF peer[c] # "closed"
                        THEN [creply EXCEPT ![c] = [got |-> TRUE, text |-> response]]
                        ELSE creply
           /\ hist' = Append(hist, << "write", c >>)
    /\ wpc' = "loop"
    /\ UNCHANGED << ctxVars, osVars, client_fd, bytes_read, buffer, response,
                    peer, cdata, srv, mgr_calls, ops, dispatchVars >>

\* write(client_fd, response, strlen(response)); result ignored: the text
\* reaches the client unless the client has closed its end
WorkerWrite ==
    /\ wpc = "write"
    /\ LET c == ConnOf(client_fd)
       IN  /\ creply' = IF peer[c] # "closed"
                        THEN [creply EXCEPT ![c] = [got |-> TRUE, text |-> response]]
                        ELSE creply
           /\ hist' = Append(hist, << "write", c >>)
    /\ wpc' = "close"
    /\ UNCHANGED << ctxVars, osVars, client_fd, bytes_read, buffer, response, peer, cdata, srv,
                    mgr_calls, ops, dispatchVars >>

\* close(client_fd);
WorkerClose ==
    /\ wpc = "close"
    /\ LET c == ConnOf(client_fd)
       IN  /\ fdtab' = CloseFd(fdtab, client_fd)
           /\ srv' = [srv EXCEPT ![c] = IF peer[c] = "closed" THEN "none" ELSE "closed"]
           /\ hist' = Append(hist, << "close", c >>)
           /\ cdata' = IF peer[c] = "closed" THEN Discard(cdata, c, << >>) ELSE cdata
           /\ creply' = IF peer[c] = "closed" THEN Discard(creply, c, NoReply) ELSE creply
    /\ wpc' = "loop"
    /\ UNCHANGED << ctxVars, file, backlog, client_fd, bytes_read, buffer,
                    response, peer, mgr_calls, ops, dispatchVars >>

----------------------------------------------------------------------------
(* Clients of the socket. *)

\* connect(): queued on the listener, or refused when nothing listens;
\* clients are numbered in the order they connect
ClientConnect(c) ==
    /\ peer[c] = "none"
    /\ \A b \in Clients : b < c => peer[b] # "none"
    /\ Listening => Len(backlog) < Backlog
    /\ IF Listening
       THEN /\ backlog' = Append(backlog, c)
            /\ peer' = [peer EXCEPT ![c] = "connected"]
            /\ srv' = [srv EXCEPT ![c] = "queued"]
       ELSE /\ peer' = [peer EXCEPT ![c] = "refused"]
            /\ UNCHANGED << backlog, srv >>
    /\ UNCHANGED << ctxVars, file, fdtab, workerVars, cdata, creply, mgr_calls,
                    hist, ops, dispatchVars >>

\* the client writes its one request line
ClientSend(c, req) ==
    /\ peer[c] = "connected"
    /\ cdata[c] = << >>
    /\ srv[c] \in {"queued", "accepted"}
    /\ cdata' = [cdata EXCEPT ![c] = req]
    /\ UNCHANGED << ctxVars, osVars, workerVars, peer, creply, srv, mgr_calls,
                    hist, ops, dispatchVars >>

\* the client closes its end
ClientClose(c) ==
    /\ peer[c] = "connected"
    /\ peer' = [peer EXCEPT ![c] = "closed"]
    /\ cdata' = IF srv[c] \in {"closed", "dropped"} THEN Discard(cdata, c, << >>) ELSE cdata
    /\ creply' = IF srv[c] \in {"closed", "dropped"} THEN Discard(creply, c, NoReply) ELSE creply
    /\ srv' = [srv EXCEPT ![c] = IF @ \in {"closed", "dropped"} THEN "none" ELSE @]
    /\ UNCHANGED << ctxVars, osVars, workerVars, mgr_calls, hist, ops,
                    dispatchVars >>

Controller ==
    \/ socket_server_init
    \/ StartNull
    \/ StartSet
    \/ StartCreate
    \/ StopClear
    \/ StopWake
    \/ StopCloseSock
    \/ StopJoin
    \/ StopCloseFd
    \/ StopUnlink
    \/ StopFree

Worker ==
    \/ WorkerLoop
    \/ WorkerAccept
    \/ WorkerAcceptFail
    \/ WorkerRead
    \/ WorkerProcess
    \/ WorkerWrite
    \/ WorkerClose

Client ==
    \/ \E c \in Clients : ClientConnect(c)
    \/ \E c \in Clients, req \in ClientRequests : ClientSend(c, req)
    \/ \E c \in Clients : ClientClose(c)

Next ==
    \/ Controller
    \/ Worker
    \/ Client

Spec ==
    Init /\ [][Next]_vars

\* the statements of socket_server_cleanup after its first
StopSteps ==
    \/ StopWake
    \/ StopCloseSock
    \/ StopJoin
    \/ StopCloseFd
    \/ StopUnlink
    \/ StopFree

\* the steps the worker takes by itself, process_command apart (a failing
\* accept is the environment's doing)
WorkerSteps ==
    \/ WorkerLoop
    \/ WorkerAccept
    \/ WorkerRead
    \/ WorkerWrite
    \/ WorkerClose

\* process_command returns: WorkerProcess is enabled exactly when wpc is
\* "process" and is the one step that leaves it, so this is WF_vars of it
ProcessReturns ==
    []<>(wpc # "process")

\* Scheduling: both threads keep running while they can take a step, and a
\* client does not hold its connection open for ever.
FairSpec ==
    /\ Spec
    /\ WF_vars(StopSteps)
    /\ WF_vars(WorkerSteps)
    /\ ProcessReturns
    /\ \A c \in Clients : WF_vars(ClientClose(c))

----------------------------------------------------------------------------
(* A started listener serving its clients, Stop not being called: the state *)
(* after socket_server_init and socket_server_start have returned success, *)
(* then the worker and the clients, which send every kind of request.      *)

\* requests of the clients: a play request, an unknown command, a line
\* without keyword, a play request without track id
ServeRequests ==
    ClientRequests \cup { Spaces(1), S_play }

ServeInit ==
    /\ ctx = "live"
    /\ running = TRUE
    /\ server_fd = NewFd(NoFds)
    /\ thread = "valid"
    /\ ctl = "idle"
    /\ sock = -1
    /\ file = "bound"
    /\ fdtab = OpenFd(NoFds, NewFd(NoFds), [kind |-> "listener", conn |-> -1])
    /\ backlog = << >>
    /\ wpc = "loop"
    /\ client_fd = -1
    /\ bytes_read = 0
    /\ buffer = << >>
    /\ response = Garbage
    /\ peer = [c \in Conns |-> "none"]
    /\ cdata = [c \in Conns |-> << >>]
    /\ creply = [c \in Conns |-> NoReply]
    /\ srv = [c \in Conns |-> "none"]
    /\ mgr_calls = << >>
    /\ hist = << >>
    /\ ops = [OpsInit EXCEPT !.ninits = 1, !.init = "ok", !.env = TRUE,
                             !.start = "ok", !.last = "start", !.workers = 1]
    /\ DispatchIdle

ServeNext ==
    \/ Worker
    \/ \E c \in Clients : ClientConnect(c)
    \/ \E c \in Clients, req \in ServeRequests : ClientSend(c, req)
    \/ \E c \in Clients : ClientClose(c)

ServeSpec ==
    ServeInit /\ [][ServeNext]_vars

----------------------------------------------------------------------------
(* The dispatcher on its own: process_command applied to every input line,  *)
(* one request after the other, on the same response buffer.                *)

DispatchInit ==
    /\ ctx = "null"
    /\ running = FALSE
    /\ server_fd = -1
    /\ thread = "none"
    /\ ctl = "idle"
    /\ sock = -1
    /\ file = "none"
    /\ fdtab = NoFds
    /\ backlog = << >>
    /\ wpc = "none"
    /\ client_fd = -1
    /\ bytes_read = 0
    /\ buffer = << >>
    /\ response = Garbage
    /\ peer = [c \in Conns |-> "none"]
    /\ srv = [c \in Conns |-> "none"]
    /\ cdata = [c \in Conns |-> << >>]
    /\ creply = [c \in Conns |-> NoReply]
    /\ mgr_calls = << >>
    /\ hist = << >>
    /\ ops = OpsInit
    /\ d_pc = "ready"
    /\ d_cmd_str \in DispatchInputs
    /\ d_mgr \in BOOLEAN
    /\ d_res = NoResult
    /\ d_response = Garbage
    /\ d_prev = Garbage

\* process_command(d_cmd_str, mgr, d_response, sizeof(response))
DispatchCall ==
    /\ d_pc \in {"ready", "ready2"}
    /\ d_res' = process_command(d_cmd_str, d_mgr, ResponseSize)
    /\ d_response' = d_res'.response
    /\ d_prev' = d_response
    /\ d_pc' = IF d_pc = "ready" THEN "done" ELSE "done2"
    /\ UNCHANGED << d_cmd_str, d_mgr, ctxVars, osVars, workerVars, connVars,
                    mgr_calls, hist, ops >>

\* the next request arrives.  Two requests in a row go through every pair
\* of a request and a content of the response buffer left by a request.
DispatchNextRequest ==
    /\ d_pc = "done"
    /\ d_cmd_str' \in DispatchInputs
    /\ d_mgr' \in BOOLEAN
    /\ d_res' = NoResult
    /\ d_prev' = Garbage
    /\ d_pc' = "ready2"
    /\ UNCHANGED << d_response, ctxVars, osVars, workerVars, connVars,
                    mgr_calls, hist, ops >>

DispatchNext ==
    \/ DispatchCall
    \/ DispatchNextRequest

DispatchSpec ==
    DispatchInit /\ [][DispatchNext]_vars

----------------------------------------------------------------------------
(* Reply texts as the specification states them (sections 4.3 and 8). *)

T_MissingTrackId ==
    << "E", "R", "R", "O", "R", ":", " ", "M", "i", "s", "s", "i", "n", "g", " ", "t", "r", "a", "c", "k", " ", "I", "D" >>

T_UnknownCommand ==
    << "E", "R", "R", "O", "R", ":", " ", "U", "n", "k", "n", "o", "w", "n", " ", "c", "o", "m", "m", "a", "n", "d", " ", "'" >>

T_Quote ==
    << "'" >>

T_Playing ==
    << "O", "K", ":", " ", "P", "l", "a", "y", "i", "n", "g", " ", "t", "r", "a", "c", "k", " " >>

T_FailedPlay ==
    << "E", "R", "R", "O", "R", ":", " ", "F", "a", "i", "l", "e", "d", " ", "t", "o", " ", "p", "l", "a", "y", " ", "t", "r", "a", "c", "k", " " >>

T_Stopped ==
    << "O", "K", ":", " ", "S", "t", "o", "p", "p", "e", "d", " ", "t", "r", "a", "c", "k", " " >>

T_FailedStop ==
    << "E", "R", "R", "O", "R", ":", " ", "F", "a", "i", "l", "e", "d", " ", "t", "o", " ", "s", "t", "o", "p", " ", "t", "r", "a", "c", "k", " " >>

T_StoppedAll ==
    << "O", "K", ":", " ", "S", "t", "o", "p", "p", "e", "d", " ", "a", "l", "l", " ", "t", "r", "a", "c", "k", "s" >>

T_FailedStopAll ==
    << "E", "R", "R", "O", "R", ":", " ", "F", "a", "i", "l", "e", "d", " ", "t", "o", " ", "s", "t", "o", "p", " ", "a", "l", "l", " ", "t", "r", "a", "c", "k", "s" >>

----------------------------------------------------------------------------
(* Lifecycle claims, checked under Spec. *)

IsPrefix(s, t) ==
    Len(s) <= Len(t) /\ s = SubSeq(t, 1, Len(s))

\* the two orders of steps one loop iteration may take on connection c
FullOrder(c) ==
    << << "accept", c >>, << "read", c >>, << "dispatch", c >>, << "write", c >>,
       << "close", c >> >>

ShortOrder(c) ==
    << << "accept", c >>, << "read", c >>, << "close", c >> >>

Accepted ==
    { c \in Conns : srv[c] = "accepted" }

\* C2: the worker handles connections one at a time, in the order accept,
\* read, dispatch, write, close; at most one accepted connection is open,
\* and the loop returns to its test (hence to the next accept) only after
\* the connection it handled has been closed, its reply written before.
C2_Serialized ==
    /\ Cardinality(Accepted) <= 1
    /\ \A c \in Accepted :
          /\ wpc \in {"read", "process", "write", "close"}
          /\ client_fd \in DOMAIN fdtab
          /\ ConnOf(client_fd) = c
    /\ wpc \in {"none", "loop", "accept", "exited"} =>
          /\ Accepted = {}
          /\ \A fd \in DOMAIN fdtab : fdtab[fd].kind # "client"
    /\ hist # << >> =>
          \E c \in Conns : IsPrefix(hist, FullOrder(c)) \/ IsPrefix(hist, ShortOrder(c))
    /\ wpc = "accept" => hist = << >>
    /\ wpc = "read" => Len(hist) = 1
    /\ wpc = "process" => Len(hist) = 2
    /\ wpc = "write" => Len(hist) = 3
    /\ wpc = "close" => Len(hist) \in {2, 4}
    /\ wpc = "loop" /\ hist # << >> =>
          \E c \in Conns : hist \in {FullOrder(c), ShortOrder(c)}
    /\ \A c \in Conns : creply[c].got /\ srv[c] = "accepted" =>
          Len(hist) >= 4 /\ hist[4] = << "write", c >>

\* C2 witness: the request of the second connection is being read after the
\* first connection got its reply and was closed.
C2_Witness ==
    /\ wpc = "read"
    /\ ConnOf(client_fd) = 2
    /\ srv[1] = "closed"
    /\ creply[1].got

\* the replies the specification allows for a request of the clients
C3_Replies(req) ==
    IF req = S_play \o << " " >> \o W_track42
    THEN { T_Playing \o W_track42, T_FailedPlay \o W_track42 }
    ELSE IF req = W_x
    THEN { T_UnknownCommand \o W_x \o T_Quote }
    ELSE { }

\* C3: the reply written on a connection is the reply to the request sent on
\* that same connection, and a client that sent a request and kept its end
\* open has its reply when the server closes the connection.
C3_OwnReply ==
    \A c \in Clients :
        /\ creply[c].got => creply[c].text \in C3_Replies(cdata[c])
        /\ srv[c] = "closed" /\ cdata[c] # << >> /\ peer[c] = "connected" =>
              creply[c].got

\* C3 witness: the first client has its reply while the second client,
\* connected at the same time, has sent a different request and waits.
C3_Witness ==
    /\ wpc = "close"
    /\ ConnOf(client_fd) = 1
    /\ creply[1].got
    /\ srv[2] = "queued"
    /\ cdata[2] # << >>
    /\ cdata[2] # cdata[1]

\* C1: if Stop is called while the worker is blocked in accept, Stop
\* eventually completes, and then no socket file is at the listener's path.
C1_StopCompletes ==
    (ctl = "stop_wake" /\ wpc = "accept" /\ backlog = << >>)
        ~> (ctl = "idle" /\ ctx = "null" /\ file = "none")

\* C4, as stated: once the running flag of a context has gone from true to
\* false (by Stop or by a failed Start), it is never true again for that
\* context.
C4_FlagNeverSetAgain ==
    [][ops.cleared /\ ops'.ninits = ops.ninits => ~running']_vars

\* C4, amended: once Stop (socket_server_cleanup) has cleared the running
\* flag of a context, the flag is never true again for that context.
C4_FlagStaysClearedAfterStop ==
    [][ops.stopCleared /\ ops'.ninits = ops.ninits => ~running']_vars

\* C4 witness: Stop has cleared a flag that was set, and the worker saw it.
C4_Witness ==
    /\ ops.stopCleared
    /\ ops.cleared
    /\ wpc = "exited"

\* C5: when Start has returned success the context is running and exactly one
\* worker runs the server loop; when it has returned failure the running
\* flag is false and there is no worker.
C5_StartOutcome ==
    ctl = "idle" /\ ctx = "live" /\ ops.last = "start" =>
        /\ ops.start \in {"ok", "fail"}
        /\ ops.start = "ok" =>
              running /\ ops.workers = 1 /\ thread = "valid" /\ wpc \notin {"none", "exited"}
        /\ ops.start = "fail" =>
              ~running /\ ops.workers = 0 /\ wpc = "none"

\* C5 witness: Start has failed on a live context.
C5_Witness ==
    /\ ctl = "idle"
    /\ ctx = "live"
    /\ ops.last = "start"
    /\ ops.start = "fail"

\* C6: Initialize succeeds whenever the environment lets allocation, socket
\* creation, bind and listen succeed, whether or not a file was at the socket
\* path (it is removed before binding), and Stop leaves no file at the path.
C6_RestartSucceeds ==
    /\ ctl = "idle" /\ ops.last = "init" /\ ops.env =>
          ops.init = "ok" /\ ctx = "live" /\ file = "bound" /\ Listening
    /\ ctl = "idle" /\ ops.last = "stop" => ctx = "null" /\ file = "none"

\* C6 witness: a second Initialize succeeded although a socket file was at
\* the path.
C6_Witness ==
    /\ ctl = "idle"
    /\ ops.last = "init"
    /\ ops.ninits = 2
    /\ ops.stale
    /\ ops.init = "ok"

\* C7: when a step of Initialize fails, no context is returned, the
\* descriptor the call opened is closed again, the running flag is not set
\* and there is no worker.
C7_InitFailureLeavesNothing ==
    /\ ops.last = "init" /\ ~ops.env => ops.init \notin {"ok", "none"}
    /\ ops.last = "init" /\ ops.init # "ok" =>
          /\ ctx = "null"
          /\ server_fd = -1
          /\ DOMAIN fdtab = {}
          /\ ~running
          /\ thread = "none"
          /\ wpc = "none"
          /\ ~Listening

\* C7 witness: listen failed after socket and bind had succeeded.
C7_Witness ==
    /\ ops.last = "init"
    /\ ops.init = "listen"

----------------------------------------------------------------------------
(* Dispatcher claims, checked under DispatchSpec. *)

\* process_command has returned
Answered ==
    d_pc \in {"done", "done2"}

\* request lines made of the keyword play or stop and nothing else but
\* a space before or after it
C8_Lines ==
    { Spaces(l) \o k \o Spaces(t) : l \in 0..1, k \in {S_play, S_stop}, t \in 0..1 }

C9_Handler(k) ==
    CASE k = S_play     -> "handle_play"
      [] k = S_stop     -> "handle_stop"
      [] k = S_stop_all -> "handle_stop_all"
      [] k = S_list     -> "handle_list"
      [] k = S_status   -> "handle_status"
      [] k = S_reload   -> "handle_reload"

\* C9: a parsed keyword outside {play, stop, stop-all, list, status, reload}
\* (case variants, prefixes and extensions included) gets the reply
\* "ERROR: Unknown command '<k>'", a failure outcome and no handler or
\* subsystem call; a keyword of the set gets its own handler and no other.
C9_ExactLookup ==
    Answered =>
        LET p == ParseCommand(d_cmd_str)
            k == p.cmd.str
        IN  ~p.cmd.isnull =>
                IF k \in Keywords
                THEN d_res.handler = C9_Handler(k)
                ELSE /\ d_res.response = T_UnknownCommand \o k \o T_Quote
                     /\ d_res.rc = -1
                     /\ d_res.calls = << >>
                     /\ d_res.handler = "none"

\* C9 witness: "stopall a", whose keyword extends the keyword stop, has
\* been answered as unknown.
C9_Witness ==
    /\ Answered
    /\ d_cmd_str = W_stopall \o << " " >> \o W_a
    /\ d_response = T_UnknownCommand \o W_stopall \o T_Quote

\* track ids used in the requests
C10_Ids ==
    ArgTexts \ { << >> }

\* C10: the reply to "play <id>", "stop <id>" and "stop-all" is fixed by the
\* keyword, the argument and the answer of the one subsystem call of the
\* request, whatever the response buffer held from the request before.
C10_Stateless ==
    Answered =>
        /\ \A id \in C10_Ids :
              d_cmd_str = S_play \o << " " >> \o id =>
                  /\ d_response = IF d_mgr THEN T_Playing \o id ELSE T_FailedPlay \o id
                  /\ d_res.rc = IF d_mgr THEN 0 ELSE -1
                  /\ d_res.calls = << << "track_manager_play", id >> >>
        /\ \A id \in C10_Ids :
              d_cmd_str = S_stop \o << " " >> \o id =>
                  /\ d_response = IF d_mgr THEN T_Stopped \o id ELSE T_FailedStop \o id
                  /\ d_res.rc = IF d_mgr THEN 0 ELSE -1
                  /\ d_res.calls = << << "track_manager_stop", id >> >>
        /\ d_cmd_str = S_stop_all =>
              /\ d_response = IF d_mgr THEN T_StoppedAll ELSE T_FailedStopAll
              /\ d_res.rc = IF d_mgr THEN 0 ELSE -1
              /\ d_res.calls = << << "track_manager_stop_all", << >> >> >>

\* C10 witness: stop-all answered with success right after a stop-all that
\* was answered with success.
C10_Witness ==
    /\ d_pc = "done2"
    /\ d_cmd_str = S_stop_all
    /\ d_mgr
    /\ d_prev = T_StoppedAll
    /\ d_response = T_StoppedAll

----------------------------------------------------------------------------
(* The parser as section 4.2 states it. *)

\* the split of a line on its first run of spaces: the keyword before the
\* run, the argument after the whole run (absent when nothing follows)
T_Split(line) ==
    LET k == strcspn(line, {" "})
        rest == Drop(line, k)
        a == Drop(rest, strspn(rest, {" "}))
    IN  [keyword |-> Take(line, k), argument |-> a]

\* request lines that begin with their keyword and fit the command buffer
C11_Lines ==
    { l \in DispatchInputs : Len(l) < CmdBufSize /\ Take(l, 1) \notin { << >>, << " " >> } }

\* C11: the parser splits a request line on the first run of spaces: the
\* keyword is the text before the run, and the argument the handler gets is
\* the text after the whole run, inner spaces kept ("play", two spaces,
\* "a b" gives keyword play and argument "a b", which play hands to the
\* subsystem and echoes in its reply).
C11_SplitOnFirstRun ==
    Answered /\ d_cmd_str \in C11_Lines =>
        LET p == ParseCommand(d_cmd_str)
            t == T_Split(d_cmd_str)
        IN  /\ p.cmd = Ptr(t.keyword)
            /\ t.argument # << >> => p.arg = Ptr(t.argument)
            /\ t.keyword = S_play /\ t.argument # << >> =>
                  /\ d_res.calls = << << "track_manager_play", t.argument >> >>
                  /\ d_response = IF d_mgr THEN T_Playing \o t.argument
                                           ELSE T_FailedPlay \o t.argument

T_EmptyCommand ==
    << "E", "R", "R", "O", "R", ":", " ", "E", "m", "p", "t", "y", " ", "c", "o", "m", "m", "a", "n", "d" >>

\* request lines without a keyword: nothing but spaces, or nothing at all
\* (a request whose first byte is '\0')
C12_Lines ==
    { Spaces(n) : n \in 0..MaxPad }

\* C12: a request that holds no keyword gets the reply
\* "ERROR: Empty command", the outcome is failure, and neither a handler
\* nor the subsystem is called.
C12_EmptyCommand ==
    Answered /\ d_cmd_str \in C12_Lines =>
        /\ d_response = T_EmptyCommand
        /\ d_res.response = T_EmptyCommand
        /\ d_res.rc = -1
        /\ d_res.handler = "none"
        /\ d_res.calls = << >>

\* C12 witness: the request made of two spaces has been answered.
C12_Witness ==
    /\ Answered
    /\ d_cmd_str = Spaces(2)
    /\ d_response = T_EmptyCommand
    /\ d_res.rc = -1

\* the track id of a request line "play <id>" (one space, id not empty and
\* not starting with a space); the empty text for any other line
C13_PlayId(line) ==
    IF /\ Len(line) > Len(S_play) + 1
       /\ Take(line, Len(S_play) + 1) = S_play \o << " " >>
       /\ line[Len(S_play) + 2] # " "
    THEN Drop(line, Len(S_play) + 1)
    ELSE << >>

\* C13: a request is cut only at the bound of the request buffer: every
\* request "play <id>" of at most 1023 bytes reaches the handler whole, the
\* track id handed to the subsystem and echoed in the reply being the full
\* id that was sent.
C13_CutOnlyAtRequestBound ==
    Answered /\ Len(d_cmd_str) <= BufferSize - 1 /\ C13_PlayId(d_cmd_str) # << >> =>
        LET id == C13_PlayId(d_cmd_str)
        IN  /\ d_res.calls = << << "track_manager_play", id >> >>
            /\ d_response = IF d_mgr THEN T_Playing \o id ELSE T_FailedPlay \o id

----------------------------------------------------------------------------
(* Shutdown and worker-loop claims, checked under Spec. *)

\* the statements of Stop before the release of the context, in the order
\* section 4.5 gives
T_StopOrder ==
    << "clear", "wake", "join", "close", "unlink" >>

\* a worker was spawned for the context and has not been joined
WorkerAlive ==
    wpc # "none"

\* C14: for a started listener the statements of Stop run in the order
\* clear flag, wake-up connect, join, close descriptor, unlink file, release
\* context, each once; the context and the listening descriptor are released
\* only after the worker has finished, so the worker never calls accept on
\* a closed descriptor nor reads a released context, and Stop does not
\* return while a connection is being handled.
C14_StopOrder ==
    /\ thread = "valid" => IsPrefix(ops.stop, T_StopOrder)
    /\ thread = "valid" /\ ctl = "stop_free" => ops.stop = T_StopOrder
    /\ WorkerAlive => ctx = "live" /\ server_fd \in DOMAIN fdtab
    /\ wpc = "accept" => fdtab[server_fd].kind = "listener"
    /\ WorkerAlive /\ wpc # "exited" => ctl \in {"idle", "stop_wake", "stop_closesock", "stop_join"}
    /\ ctx = "null" => Accepted = {} /\ client_fd = -1

\* C15: the worker leaves its loop only at the loop test and only when the
\* running flag is false.  An accept failure leaves the flag as it is and
\* goes back to the loop test; it is logged exactly when the flag is true,
\* and then accept is tried again; when the failure is seen with the flag
\* cleared, the flag is still false at the loop test and the worker exits
\* without another accept.
C15_LoopExit ==
    [][ /\ (wpc # "exited" /\ wpc' = "exited") => (wpc = "loop" /\ ~running)
        /\ (wpc = "accept" /\ wpc' # "accept") =>
              \/ wpc' = "read" /\ client_fd' >= 0
              \/ /\ wpc' = "loop"
                 /\ running' = running
                 /\ ops'.logged = running
        /\ (wpc = "loop" /\ wpc' # "loop") =>
              wpc' = IF running THEN "accept" ELSE "exited"
        /\ (wpc = "loop" /\ ops.acceptFails > 0 /\ ~ops.logged) => ~running
      ]_vars

\* C15 witness: accept has failed after Stop cleared the flag, the failure
\* was not logged, and the worker is at the loop test it will exit from.
C15_Witness ==
    /\ wpc = "loop"
    /\ ops.acceptFails > 0
    /\ ~ops.logged
    /\ ops.stopCleared
    /\ ~running

\* C16: after Stop has cleared the running flag the worker accepts at most
\* one more connection, the wake-up connection or a client's; having
\* accepted it, the worker handles it and exits at the next loop test, the
\* flag being false.
C16_OneMoreCycle ==
    /\ ops.late <= 1
    /\ ops.late = 1 =>
          /\ wpc \in {"read", "process", "write", "close", "loop", "exited"}
          /\ ~running

\* C16 witness: a client's connection, accepted after Stop cleared the flag,
\* has been handled and the worker has exited.
C16_Witness ==
    /\ ops.late = 1
    /\ wpc = "exited"
    /\ srv[WakeConn] = "queued"
    /\ \E c \in Clients : srv[c] = "closed" /\ creply[c].got

\* descriptors of accepted connections open in the process
ClientFds ==
    { fd \in DOMAIN fdtab : fdtab[fd].kind = "client" }

\* C17: the worker closes each connection it accepted exactly once before
\* it is back at the loop test (hence before the next accept or the exit),
\* whatever read and write returned; when read returned zero or less, as
\* for the wake-up connection of Stop, nothing is dispatched, the subsystem
\* is not called and nothing is written on the connection.
C17_ClosedOnce ==
    /\ ClientFds \subseteq {client_fd}
    /\ wpc \in {"loop", "accept", "exited", "none"} =>
          /\ ClientFds = {}
          /\ Accepted = {}
    /\ hist # << >> =>
          LET c == hist[1][2]
              n == Len(hist)
          IN  /\ IsPrefix(hist, FullOrder(c)) \/ IsPrefix(hist, ShortOrder(c))
              /\ wpc = "loop" <=> hist[n] = << "close", c >>
              /\ n >= 2 /\ bytes_read <= 0 =>
                    /\ IsPrefix(hist, ShortOrder(c))
                    /\ wpc \in {"close", "loop"}
                    /\ mgr_calls = << >>
                    /\ ~creply[c].got

\* C17 witness: the wake-up connection of Stop was accepted, read returned
\* no bytes, and the connection has been closed without dispatch or reply.
C17_Witness ==
    /\ wpc = "loop"
    /\ hist = ShortOrder(WakeConn)
    /\ bytes_read <= 0
    /\ ~creply[WakeConn].got
    /\ ClientFds = {}

----------------------------------------------------------------------------
(* Claims on a listener that is serving, checked under ServeSpec. *)

\* C18: as long as Stop is not called, no request and no connection changes
\* the state of the listener, whether the request is empty, unknown, lacks
\* its argument or is refused by the subsystem, whether read or write
\* fails: the running flag stays true, the listening descriptor stays open
\* and the same, the socket file stays bound to it, the context stays
\* live, and the worker stays in its loop, returning to accept.
C18_ListenerUntouched ==
    /\ running
    /\ ctx = "live"
    /\ thread = "valid"
    /\ server_fd = NewFd(NoFds)
    /\ server_fd \in DOMAIN fdtab
    /\ fdtab[server_fd] = [kind |-> "listener", conn |-> -1]
    /\ file = "bound"
    /\ wpc \in {"loop", "accept", "read", "process", "write", "close"}

\* C18 witness: a request without keyword and a request without track id
\* have both been answered with an error, both connections are closed, and
\* the worker is in accept again.
C18_Witness ==
    /\ wpc = "accept"
    /\ \E c1, c2 \in Clients :
          /\ creply[c1].got /\ creply[c1].text = T_EmptyCommand
          /\ creply[c2].got /\ creply[c2].text = T_MissingTrackId
          /\ srv[c1] = "closed" /\ srv[c2] = "closed"
    /\ running

----------------------------------------------------------------------------
(* Response claims, checked under DispatchSpec. *)

T_OK ==
    << "O", "K", ":", " " >>

T_ERROR ==
    << "E", "R", "R", "O", "R", ":", " " >>

\* C19: every call of process_command writes the response buffer, and the
\* tag of the response agrees with the value returned: the response begins
\* with "OK: " exactly when 0 is returned and with "ERROR: " exactly when -1
\* is returned, nothing else is ever returned, and the response is at most
\* 1023 characters long.
C19_TagMatchesOutcome ==
    Answered =>
        /\ d_res.rc \in {0, -1}
        /\ d_res.rc = 0 <=> IsPrefix(T_OK, d_response)
        /\ d_res.rc = -1 <=> IsPrefix(T_ERROR, d_response)
        /\ Len(d_response) <= ResponseSize - 1
        /\ d_response # Garbage
        /\ \A i \in 1..Len(d_response) : d_response[i] # NUL

\* C19 witness: a request answered with success on a response buffer that
\* held the error reply of the request before.
C19_Witness ==
    /\ d_pc = "done2"
    /\ IsPrefix(T_ERROR, d_prev)
    /\ d_res.rc = 0
    /\ d_cmd_str = S_list
    /\ IsPrefix(T_OK, d_response)

----------------------------------------------------------------------------
(* Initialize and the file system, checked under Spec. *)

\* C20: when socket_server_init has returned failure, no socket file made by
\* that call is left at the socket path, also when listen failed after bind
\* had made the file (a file found there by a call that failed before its
\* unlink is not of that call's making).
C20_NoResidueAfterFailedInit ==
    ops.last = "init" /\ ops.init \notin {"ok", "none"} =>
        \/ file = "none"
        \/ ops.init = "calloc" /\ ops.stale

====
